---- MODULE Spec2Model ----
(***************************************************************************)
(* buildchain: the signed block verifier (block.rs), the verify-on-fetch   *)
(* downloader (download.rs, sha384.rs) and the content-addressed store     *)
(* (store.rs).                                                             *)
(*                                                                         *)
(* Bytes are integers 0..255, byte strings are sequences of bytes, text is *)
(* a TLA+ string.  Two library primitives cannot be computed here and are  *)
(* idealised:                                                              *)
(*   - SHA-384 is a collision-free function into 48-byte strings;          *)
(*   - an Ed25519 attached signature opens under a public key exactly when *)
(*     the holder of that key produced that very buffer (the variable      *)
(*     signed records what each signer has produced).                      *)
(***************************************************************************)
EXTENDS Integers, Sequences, FiniteSets, TLC

VARIABLES
    signed,   \* attached-signature buffers produced so far: [pk, sm] records
    wire,     \* body the server returns for tail/<project>/<branch>
    res,      \* the last Downloader call: its inputs and what it returned
    cmd,      \* the download command: its position, requests and output
    fs,       \* the store's directory tree: path -> node
    proc,     \* per caller: the store operation in progress and its locals
    procs,    \* the callers that operate on the store
    disk      \* the tree as of the last commit of the file system's journal

vars == <<signed, wire, res, cmd, fs, proc, procs, disk>>

fetchVars == <<signed, wire, res, cmd>>
storeVars == <<fs, proc, procs, disk>>

(***************************************************************************)
(* Bounds of the model                                                     *)
(***************************************************************************)
MaxSigned == 1      \* blocks the signers produce in one behaviour
MaxLen == 2         \* longest object content, in bytes
MaxCalls == 2       \* store calls one caller makes in one behaviour
MaxHops == 2        \* symbolic links followed when a path is opened

(***************************************************************************)
(* Sizes fixed by the packed layout                                        *)
(***************************************************************************)
BLOCK_SIZE == 400
SIG_SIZE == 64
KEY_SIZE == 32
U64_SIZE == 8
DIGEST_SIZE == 48
ID_SIZE == 15

(***************************************************************************)
(* Byte strings                                                            *)
(***************************************************************************)
Rep(n, b) == [i \in 1..n |-> b]

\* s[from..to) with zero-based offsets, as a Rust slice
Slice(s, from, to) == SubSeq(s, from + 1, to)

(***************************************************************************)
(* store.rs: unpadded RFC 4648 base-32                                     *)
(***************************************************************************)
B32_ALPHABET ==
    << "A", "B", "C", "D", "E", "F", "G", "H", "I", "J", "K", "L", "M",
       "N", "O", "P", "Q", "R", "S", "T", "U", "V", "W", "X", "Y", "Z",
       "2", "3", "4", "5", "6", "7" >>

\* bit k (0 = most significant bit of the first byte), 0 past the end
BitAt(bin, k) ==
    IF k \div 8 < Len(bin)
    THEN (bin[(k \div 8) + 1] \div (2 ^ (7 - (k % 8)))) % 2
    ELSE 0

\* the i-th (zero-based) group of five bits
Quintet(bin, i) ==
    16 * BitAt(bin, 5 * i) + 8 * BitAt(bin, 5 * i + 1) + 4 * BitAt(bin, 5 * i + 2)
    + 2 * BitAt(bin, 5 * i + 3) + BitAt(bin, 5 * i + 4)

\* the characters of quintets lo..hi-1, concatenated (by halves)
RECURSIVE B32From(_, _, _)
B32From(bin, lo, hi) ==
    IF lo >= hi THEN ""
    ELSE IF hi = lo + 1 THEN B32_ALPHABET[Quintet(bin, lo) + 1]
    ELSE LET mid == (lo + hi) \div 2
         IN  B32From(bin, lo, mid) \o B32From(bin, mid, hi)

b32enc(bin) == B32From(bin, 0, (8 * Len(bin) + 4) \div 5)

\* the value of a base-32 character, -1 for a character outside the alphabet
B32Value(ch) ==
    IF \E k \in 1..32 : B32_ALPHABET[k] = ch
    THEN (CHOOSE k \in 1..32 : B32_ALPHABET[k] = ch) - 1
    ELSE -1

\* the i-th (zero-based) character of a text
CharAt(text, i) == SubSeq(text, i + 1, i + 1)

\* bit k of the quintets the characters of a text stand for
TextBit(text, k) == (B32Value(CharAt(text, k \div 5)) \div (2 ^ (4 - (k % 5)))) % 2

\* byte j (zero-based) of the decoded text
TextByte(text, j) ==
    128 * TextBit(text, 8 * j) + 64 * TextBit(text, 8 * j + 1)
    + 32 * TextBit(text, 8 * j + 2) + 16 * TextBit(text, 8 * j + 3)
    + 8 * TextBit(text, 8 * j + 4) + 4 * TextBit(text, 8 * j + 5)
    + 2 * TextBit(text, 8 * j + 6) + TextBit(text, 8 * j + 7)

\* Option<Vec<u8>>
None == {}
Some(v) == {v}

\* base32::decode of an upper-case text without padding: None on a character
\* outside the alphabet, else the first 5 * len / 8 (rounded down) bytes of
\* the bits of the text, a text of any length
b32dec(text) ==
    IF \E i \in 0..(Len(text) - 1) : B32Value(CharAt(text, i)) = -1
    THEN None
    ELSE Some([j \in 1..((5 * Len(text)) \div 8) |-> TextByte(text, j - 1)])

(***************************************************************************)
(* SHA-384, idealised: an injective map from the contents of the model     *)
(* (at most 47 bytes) to 48-byte strings.                                  *)
(***************************************************************************)
Sha384(data) ==
    [i \in 1..DIGEST_SIZE |->
        IF i = 1 THEN (Len(data) + 1) % 256
        ELSE IF i - 1 <= Len(data) THEN (167 * data[i - 1] + 13 * i) % 256
        ELSE (29 * i) % 256]

\* sha384.rs: Sha384::to_base32
Sha384_to_base32(sha) == b32enc(SubSeq(sha, 1, DIGEST_SIZE))

\* sha384.rs: the deserializer of the bytes of a Sha384, any number of bytes
from_base32(text) ==
    IF b32dec(text) = None
    THEN [ok |-> FALSE, err |-> "b32dec failed", val |-> {}]
    ELSE [ok |-> TRUE, err |-> "", val |-> b32dec(text)]

\* sha384.rs: the serializer of the bytes of a Sha384
to_base32(buffer) == b32enc(buffer)

\* [u8; n]::copy_from_slice panics unless the slice has n bytes
copy_from_slice(n, src) ==
    IF Len(src) = n
    THEN [ok |-> TRUE, err |-> "", val |-> {src}]
    ELSE [ok |-> FALSE, err |-> "panic", val |-> {}]

\* Sha384::to_base32 of a value of any length: the copy into [u8; 48], b32enc
Sha384_to_base32_call(sha) ==
    LET key == copy_from_slice(DIGEST_SIZE, sha)
    IN  IF key.ok
        THEN [ok |-> TRUE, err |-> "", val |-> {b32enc(CHOOSE k \in key.val : TRUE)}]
        ELSE key

(***************************************************************************)
(* block.rs: the packed layout, fields at fixed offsets                    *)
(***************************************************************************)
OFF_public_key == SIG_SIZE
OFF_previous_signature == OFF_public_key + KEY_SIZE
OFF_counter == OFF_previous_signature + SIG_SIZE
OFF_timestamp == OFF_counter + U64_SIZE
OFF_request == OFF_timestamp + U64_SIZE
OFF_request_public_key == OFF_request + SIG_SIZE
OFF_request_previous_signature == OFF_request_public_key + KEY_SIZE
OFF_request_counter == OFF_request_previous_signature + SIG_SIZE
OFF_request_timestamp == OFF_request_counter + U64_SIZE
OFF_request_digest == OFF_request_timestamp + U64_SIZE

PB_signature(b) == Slice(b, 0, OFF_public_key)
PB_public_key(b) == Slice(b, OFF_public_key, OFF_previous_signature)
PB_previous_signature(b) == Slice(b, OFF_previous_signature, OFF_counter)
PB_counter(b) == Slice(b, OFF_counter, OFF_timestamp)
PB_timestamp(b) == Slice(b, OFF_timestamp, OFF_request)
PB_request_signature(b) == Slice(b, OFF_request, OFF_request_public_key)
PB_request_public_key(b) == Slice(b, OFF_request_public_key, OFF_request_previous_signature)
PB_request_previous_signature(b) == Slice(b, OFF_request_previous_signature, OFF_request_counter)
PB_request_counter(b) == Slice(b, OFF_request_counter, OFF_request_timestamp)
PB_request_timestamp(b) == Slice(b, OFF_request_timestamp, OFF_request_digest)
\* (mutant) the digest read one field too early
PB_request_digest_shifted(b) ==
    Slice(b, OFF_request_timestamp, OFF_request_timestamp + DIGEST_SIZE)

PB_request_digest(b) == Slice(b, OFF_request_digest, OFF_request_digest + DIGEST_SIZE)

\* u64::from_le of the eight bytes of a field (Horner, least significant first)
RECURSIVE LeFrom(_, _)
LeFrom(bytes, i) ==
    IF i > Len(bytes) THEN 0 ELSE bytes[i] + 256 * LeFrom(bytes, i + 1)

u64_from_le(bytes) == LeFrom(bytes, 1)

(***************************************************************************)
(* Results: val holds the returned value on success and nothing on error   *)
(***************************************************************************)
Ok(v) == [ok |-> TRUE, err |-> "", val |-> {v}]
Err(e) == [ok |-> FALSE, err |-> e, val |-> {}]

\* the one element of a result's value
ValOf(r) == CHOOSE v \in r.val : TRUE

(***************************************************************************)
(* The signer (external): builds the 336-byte payload and attaches a       *)
(* signature no other buffer carries.                                      *)
(***************************************************************************)
u64_to_le(n) ==
    [i \in 1..U64_SIZE |->
        IF i <= 3 THEN (n \div (256 ^ (i - 1))) % 256
        ELSE IF i = 4 THEN (n \div 16777216) % 256
        ELSE 0]

SignerKey(k) == [i \in 1..KEY_SIZE |-> (16 * k + i) % 256]
Signers == {1, 2}

SigBytes(n) == [i \in 1..SIG_SIZE |-> (41 * n + 7 * i) % 256]

Payload(pk, prev, counter, timestamp, rsig, rpk, rprev, rcounter, rtimestamp, digest) ==
    pk \o prev \o u64_to_le(counter) \o u64_to_le(timestamp)
       \o rsig \o rpk \o rprev \o u64_to_le(rcounter) \o u64_to_le(rtimestamp)
       \o digest

\* what a request may disagree with its block about
Diffs == {"none", "public_key", "previous_signature", "counter", "timestamp"}

FirstCounter == 258
FirstTimestamp == 1500000000

\* the payload signer k produces as its n-th block, the request differing in diff
PayloadOf(k, n, diff) ==
    LET pk == SignerKey(k)
        prev == SigBytes(n + 100)
        counter == FirstCounter + n
        timestamp == FirstTimestamp + n
    IN  Payload(pk, prev, counter, timestamp,
                SigBytes(n + 200),
                IF diff = "public_key" THEN SignerKey(k + 2) ELSE pk,
                IF diff = "previous_signature" THEN SigBytes(n + 101) ELSE prev,
                IF diff = "counter" THEN counter + 1 ELSE counter,
                IF diff = "timestamp" THEN timestamp + 1 ELSE timestamp,
                Sha384(<<k, n>>))

\* sodalite: sign_attached_open(m, sm, pk), its result with m truncated to count
sign_attached_open(sm, pk) ==
    IF [pk |-> pk, sm |-> sm] \in signed
    THEN Ok(SubSeq(sm, SIG_SIZE + 1, Len(sm)))
    ELSE Err("()")

(***************************************************************************)
(* block.rs: PackedBlock::verify                                           *)
(***************************************************************************)
DecodedBlock(self) ==
    [signature |-> b32enc(PB_signature(self)),
     public_key |-> b32enc(PB_public_key(self)),
     previous_signature |-> b32enc(PB_previous_signature(self)),
     counter |-> u64_from_le(PB_counter(self)),
     timestamp |-> u64_from_le(PB_timestamp(self)),
     digest |-> b32enc(PB_request_digest(self))]

\* (mutant) the signature is opened before the signer is compared
verify_signature_first(self, key) ==
    LET opened == sign_attached_open(self, PB_public_key(self))
    IN  IF ~opened.ok
        THEN Err("signature invalid")
        ELSE IF PB_public_key(self) # key
        THEN Err("public key mismatch")
        ELSE Ok(DecodedBlock(self))

\* (mutant) the signature is never opened
verify_unopened(self, key) ==
    IF PB_public_key(self) # key
    THEN Err("public key mismatch")
    ELSE Ok(DecodedBlock(self))

\* (mutant) the request fields are also compared with the outer fields
verify_request_compared(self, key) ==
    IF PB_public_key(self) # key
    THEN Err("public key mismatch")
    ELSE IF ~sign_attached_open(self, PB_public_key(self)).ok
    THEN Err("signature invalid")
    ELSE IF \/ PB_request_public_key(self) # PB_public_key(self)
            \/ PB_request_previous_signature(self) # PB_previous_signature(self)
            \/ PB_request_counter(self) # PB_counter(self)
            \/ PB_request_timestamp(self) # PB_timestamp(self)
    THEN Err("message data invalid")
    ELSE Ok(DecodedBlock(self))

verify(self, key) ==
    IF PB_public_key(self) # key
    THEN Err("public key mismatch")
    ELSE LET sm == self
             opened == sign_attached_open(sm, PB_public_key(self))
         IN  IF ~opened.ok
             THEN Err("signature invalid")
             ELSE IF \E m \in opened.val : m # SubSeq(sm, SIG_SIZE + 1, Len(sm))
             THEN Err("message data invalid")
             ELSE Ok(DecodedBlock(self))

(***************************************************************************)
(* download.rs: Downloader                                                 *)
(***************************************************************************)
\* plain::from_bytes for a packed (alignment 1) type: Err(TooShort) when the
\* slice is shorter than the type, else a view of its first size_of bytes
from_bytes(data) ==
    IF Len(data) < BLOCK_SIZE
    THEN Err("TooShort")
    ELSE Ok(SubSeq(data, 1, BLOCK_SIZE))

is_success(status) == 200 <= status /\ status <= 299

\* (mutant) the body of any response is returned, whatever the status
Downloader_download_any_status(resp) == Ok(resp.body)

\* Downloader::download: resp is what the server answers to the one GET
Downloader_download(resp) ==
    IF ~is_success(resp.status)
    THEN Err("failed to download")
    ELSE Ok(resp.body)

\* (mutant) the body is returned without comparing its digest
Downloader_object_unchecked(digest, resp) == Downloader_download(resp)

Downloader_object(digest, resp) ==
    LET got == Downloader_download(resp)
    IN  IF ~got.ok THEN got
        ELSE LET data == CHOOSE d \in got.val : TRUE
                 sha == Sha384(data)
             IN  IF Sha384_to_base32(sha) # digest
                 THEN Err("sha384 mismatch")
                 ELSE Ok(data)

\* (mutant) the block is decoded and returned without verify
Downloader_tail_unverified(key, resp) ==
    LET got == Downloader_download(resp)
    IN  IF ~got.ok THEN got
        ELSE LET data == CHOOSE d \in got.val : TRUE
                 b == from_bytes(data)
             IN  IF ~b.ok
                 THEN Err("response too small")
                 ELSE Ok(DecodedBlock(CHOOSE x \in b.val : TRUE))

Downloader_tail(key, resp) ==
    LET got == Downloader_download(resp)
    IN  IF ~got.ok THEN got
        ELSE LET data == CHOOSE d \in got.val : TRUE
                 b == from_bytes(data)
             IN  IF ~b.ok
                 THEN Err("response too small")
                 ELSE verify(CHOOSE x \in b.val : TRUE, key)

(***************************************************************************)
(* The download side: signers produce blocks, the server (untrusted) may   *)
(* serve any of them, altered or not, and the Downloader fetches.          *)
(***************************************************************************)
NoCall == [op |-> "none", key |-> <<>>, digest |-> "", status |-> 0,
           data |-> <<>>, out |-> Err("")]

\* the download command before it is run
NoCmd ==
    [pc |-> "idle", key |-> <<>>, file_opt |-> {}, got |-> <<>>,
     block |-> {}, manifest |-> {}, data |-> <<>>, out |-> <<>>, printed |-> {},
     ret |-> Err(""), at |-> ""]

InitFetch ==
    /\ signed = {}
    /\ wire = <<>>
    /\ res = NoCall
    /\ cmd = NoCmd

\* the keys a Downloader may be configured with: b32dec of any text, so any length
ExpectedKeys ==
    {SignerKey(k) : k \in Signers}
        \cup {SubSeq(SignerKey(1), 1, KEY_SIZE - 1), SignerKey(1) \o <<0>>}

Statuses == {200, 404}

\* the byte that ends a line
NEWLINE == 10

DataBytes == {104, 105, NEWLINE}
Contents == UNION {[1..n -> DataBytes] : n \in 0..MaxLen}

\* the server holds a block exactly as a signer produced it
Served == \E s \in signed : s.sm = wire

\* the Downloader has not been called yet: each behaviour is the signers' and
\* the server's activity followed by one call
NotFetched == res.op = "none" /\ cmd.pc = "idle"

\* signer k produces its next block; the server serves it
HsmSign(k, diff) ==
    /\ NotFetched
    /\ Cardinality(signed) < MaxSigned
    /\ LET n == Cardinality(signed) + 1
           sm == SigBytes(n) \o PayloadOf(k, n, diff)
       IN  /\ signed' = signed \cup {[pk |-> SignerKey(k), sm |-> sm]}
           /\ wire' = sm
    /\ UNCHANGED <<res, cmd, storeVars>>

\* the server serves again a block a signer produced
Replay(s) ==
    /\ NotFetched
    /\ wire # s.sm
    /\ wire' = s.sm
    /\ UNCHANGED <<signed, res, cmd, storeVars>>

FlipBit(b) == IF b % 2 = 0 THEN b + 1 ELSE b - 1

TamperOffsets ==
    {0, SIG_SIZE - 1, OFF_public_key, OFF_previous_signature, OFF_counter,
     OFF_timestamp, OFF_request, OFF_request_public_key,
     OFF_request_previous_signature, OFF_request_counter,
     OFF_request_timestamp, OFF_request_digest, BLOCK_SIZE - 1}

\* one bit of a served block flips
Tamper(off) ==
    /\ NotFetched
    /\ Served
    /\ wire' = [wire EXCEPT ![off + 1] = FlipBit(@)]
    /\ UNCHANGED <<signed, res, cmd, storeVars>>

\* the signature is kept and bytes [64..400) are replaced by another payload
Forge(k, n, diff) ==
    /\ NotFetched
    /\ Served
    /\ PayloadOf(k, n, diff) # SubSeq(wire, SIG_SIZE + 1, Len(wire))
    /\ wire' = PB_signature(wire) \o PayloadOf(k, n, diff)
    /\ UNCHANGED <<signed, res, cmd, storeVars>>

\* the body loses its last byte or gains a byte
Resize(d) ==
    /\ NotFetched
    /\ Served
    /\ wire' = IF d < 0 THEN SubSeq(wire, 1, Len(wire) - 1) ELSE wire \o <<0>>
    /\ UNCHANGED <<signed, res, cmd, storeVars>>

\* Downloader::tail with the configured key
FetchTail(key, status) ==
    /\ NotFetched
    /\ res' = [op |-> "tail", key |-> key, digest |-> "", status |-> status,
               data |-> wire,
               out |-> Downloader_tail(key, [status |-> status, body |-> wire])]
    /\ UNCHANGED <<signed, wire, cmd, storeVars>>

\* the textual digest of every content of the model
DigestTable == {<<c, Sha384_to_base32(Sha384(c))>> : c \in Contents}
DigestOf == [c \in Contents |-> (CHOOSE p \in DigestTable : p[1] = c)[2]]

Digests == {DigestOf[c] : c \in Contents} \cup {"", "AAAA"}

\* Downloader::object for a digest, the server answering with any body
FetchObject(digest, status, body) ==
    /\ NotFetched
    /\ res' = [op |-> "object", key |-> <<>>, digest |-> digest, status |-> status,
               data |-> body,
               out |-> Downloader_object(digest, [status |-> status, body |-> body])]
    /\ UNCHANGED <<signed, wire, cmd, storeVars>>

\* the length of the text of a digest, and the lengths of the texts tried
DigestTextLen == (8 * DIGEST_SIZE + 4) \div 5
TextLens == {0, 2, DigestTextLen - 1, DigestTextLen}

\* the texts a manifest may give as a digest: a digest, cut short, extended,
\* or with a character outside the alphabet
DigestTexts ==
    {SubSeq(DigestOf[c], 1, n) : c \in Contents, n \in TextLens}
        \cup {DigestOf[c] \o "AAA" : c \in Contents}
        \cup {"1" \o SubSeq(DigestOf[c], 2, DigestTextLen) : c \in Contents}

\* serde reads the digest of a manifest entry
Deserialize(text) ==
    /\ NotFetched
    /\ res' = [NoCall EXCEPT !.op = "from_base32", !.digest = text,
                             !.out = from_base32(text)]
    /\ UNCHANGED <<signed, wire, cmd, storeVars>>

\* serde writes the Sha384 read back into a manifest
Serialize ==
    /\ res.op = "from_base32"
    /\ res.out.ok
    /\ res' = [res EXCEPT !.op = "serialize", !.data = ValOf(res.out),
                          !.out = Ok(to_base32(ValOf(res.out)))]
    /\ UNCHANGED <<signed, wire, cmd, storeVars>>

\* the Sha384 read is given as text again, as for the path of Downloader::object
ToBase32 ==
    /\ res.op = "from_base32"
    /\ res.out.ok
    /\ res' = [res EXCEPT !.op = "to_base32", !.data = ValOf(res.out),
                          !.out = Sha384_to_base32_call(ValOf(res.out))]
    /\ UNCHANGED <<signed, wire, cmd, storeVars>>

NextDigest ==
    \/ \E text \in DigestTexts : Deserialize(text)
    \/ Serialize
    \/ ToBase32

NextVerify ==
    \/ \E k \in Signers, diff \in Diffs : HsmSign(k, diff)
    \/ \E s \in signed : Replay(s)
    \/ \E off \in TamperOffsets : Tamper(off)
    \/ \E k \in Signers, n \in 1..MaxSigned, diff \in Diffs : Forge(k, n, diff)
    \/ \E d \in {-1, 1} : Resize(d)
    \/ \E key \in ExpectedKeys, status \in Statuses : FetchTail(key, status)

NextObject ==
    \E digest \in Digests, status \in Statuses, body \in Contents :
        FetchObject(digest, status, body)


(***************************************************************************)
(* store.rs: the directory tree under the store's base directory.  A path  *)
(* is a tuple of names relative to the base directory, which always        *)
(* exists; fs maps every other existing path to its node.  synced tells    *)
(* whether a file's content has reached the disk.                          *)
(***************************************************************************)
MODE_RO == 256      \* 0o400
MODE_RW == 420      \* 0o644, a file as the build leaves it
MODE_LINK == 511    \* 0o777, what lstat reports for a symbolic link

\* a directory; its mode is left to the umask and is not tracked
DirNode == [kind |-> "dir", content |-> <<>>, mode |-> 0, synced |-> TRUE]
FileNode(content, mode, synced) ==
    [kind |-> "file", content |-> content, mode |-> mode, synced |-> synced]

EmptyFs == [p \in {} |-> DirNode]

Put(f, path, node) ==
    [q \in DOMAIN f \cup {path} |-> IF q = path THEN node ELSE f[q]]
Remove(f, path) == [q \in DOMAIN f \ {path} |-> f[q]]

ParentOf(path) == SubSeq(path, 1, Len(path) - 1)
Children(f, path) == {q \in DOMAIN f : Len(q) = Len(path) + 1 /\ ParentOf(q) = path}

FsOk(f) == [ok |-> TRUE, err |-> "", fs |-> f]
FsErr(e, f) == [ok |-> FALSE, err |-> e, fs |-> f]

\* Path::is_dir
is_dir(f, path) == path = <<>> \/ (path \in DOMAIN f /\ f[path].kind = "dir")

\* std::fs::create_dir
create_dir(f, path) ==
    IF path = <<>> \/ path \in DOMAIN f THEN FsErr("AlreadyExists", f)
    ELSE IF ~is_dir(f, ParentOf(path)) THEN FsErr("NotFound", f)
    ELSE FsOk(Put(f, path, DirNode))

\* (mutant) the directory is removed with everything in it
remove_dir_all(f, path) ==
    IF path \notin DOMAIN f THEN FsErr("NotFound", f)
    ELSE FsOk([q \in {r \in DOMAIN f : SubSeq(r, 1, Len(path)) # path} |-> f[q]])

\* std::fs::remove_dir
remove_dir(f, path) ==
    IF path \notin DOMAIN f THEN FsErr("NotFound", f)
    ELSE IF f[path].kind # "dir" THEN FsErr("NotADirectory", f)
    ELSE IF Children(f, path) # {} THEN FsErr("DirectoryNotEmpty", f)
    ELSE FsOk(Remove(f, path))

\* (mutant) a rename that refuses an existing destination
rename_noreplace(f, src, dst) ==
    IF src \notin DOMAIN f THEN FsErr("NotFound", f)
    ELSE IF ~is_dir(f, ParentOf(dst)) THEN FsErr("NotFound", f)
    ELSE IF dst \in DOMAIN f THEN FsErr("AlreadyExists", f)
    ELSE FsOk(Put(Remove(f, src), dst, f[src]))

\* std::fs::rename of a file: atomically replaces an existing file at dst
rename(f, src, dst) ==
    IF src \notin DOMAIN f THEN FsErr("NotFound", f)
    ELSE IF ~is_dir(f, ParentOf(dst)) THEN FsErr("NotFound", f)
    ELSE IF dst \in DOMAIN f /\ f[dst].kind = "dir" THEN FsErr("IsADirectory", f)
    ELSE IF src = dst THEN FsOk(f)
    ELSE FsOk(Put(Remove(f, src), dst, f[src]))

\* OpenOptions::new().create_new(true).write(true).mode(mode).open(path)
open_create_new(f, path, mode) ==
    IF path \in DOMAIN f THEN FsErr("AlreadyExists", f)
    ELSE IF ~is_dir(f, ParentOf(path)) THEN FsErr("NotFound", f)
    ELSE FsOk(Put(f, path, FileNode(<<>>, mode, FALSE)))

\* one write(2) through the open file: bytes are appended, not yet on disk
write(f, path, bytes) ==
    Put(f, path, FileNode(f[path].content \o bytes, f[path].mode, FALSE))

\* (mutant) sync_all left out
sync_all_skipped(f, path) == f

\* File::sync_all: what is at the path is as it was, and is on the disk
sync_all(f, path) == Put(f, path, [f[path] EXCEPT !.synced = TRUE])

\* the disk where no power cut is followed, and the disk holding a tree;
\* dirty: the files whose inode has changed since the last commit of the
\* journal (created, written, chmod-ed or renamed)
NoDisk == [tracked |-> FALSE, tree |-> EmptyFs, dirty |-> {}]
DiskOf(f) == [tracked |-> TRUE, tree |-> f, dirty |-> {}]

\* the inode of the file at path changes
Dirtied(d, path) == IF d.tracked THEN [d EXCEPT !.dirty = @ \cup {path}] ELSE d

\* the file an open descriptor is on once another file was renamed over
\* it: it has no path, and its inode is written until it is closed
Orphan == <<"(deleted)">>

\* fsync of the file at path, the disks it may leave.  When the inode of
\* the file has changed since the last commit, the journal is committed:
\* the tree as it is now is the one on the disk, the changes other callers
\* made included.  When it has not, the kernel may have written the data of
\* the file back already (it does so by itself after some time, and on
\* sync), and then fsync finds nothing to write and commits nothing: the
\* disk keeps the tree of the last commit, the file holding all its bytes;
\* or the data are still to be written, and writing them commits the
\* journal
Flushed(d, f, path) ==
    IF ~d.tracked THEN {d}
    ELSE IF path \in d.dirty THEN {DiskOf(f)}
    ELSE IF path \in DOMAIN d.tree
    THEN {DiskOf(f), [d EXCEPT !.tree[path].synced = TRUE]}
    ELSE {DiskOf(f), d}

\* a symbolic link: its content is the target path, relative to its directory
SymlinkNode(target) ==
    [kind |-> "symlink", content |-> target, mode |-> MODE_LINK, synced |-> TRUE]

\* a path with its ".." components resolved
RECURSIVE NormFrom(_, _, _)
NormFrom(path, i, acc) ==
    IF i > Len(path) THEN acc
    ELSE IF path[i] = ".." THEN NormFrom(path, i + 1, SubSeq(acc, 1, Len(acc) - 1))
    ELSE NormFrom(path, i + 1, Append(acc, path[i]))

Normalize(path) == NormFrom(path, 1, <<>>)

\* path resolution of open(2): symbolic links are followed, at most hops of them
RECURSIVE Resolve(_, _, _)
Resolve(f, path, hops) ==
    IF path \in DOMAIN f /\ f[path].kind = "symlink"
    THEN IF hops = 0 THEN [ok |-> FALSE, err |-> "FilesystemLoop", path |-> path]
         ELSE Resolve(f, Normalize(ParentOf(path) \o f[path].content), hops - 1)
    ELSE IF path \in DOMAIN f THEN [ok |-> TRUE, err |-> "", path |-> path]
    ELSE [ok |-> FALSE, err |-> "NotFound", path |-> path]

\* File::open(path): the file the descriptor is on
open(f, path) == Resolve(f, path, MaxHops)

\* std::os::unix::fs::symlink(target, link): never replaces what is at link
symlink(f, target, link) ==
    IF link \in DOMAIN f THEN FsErr("AlreadyExists", f)
    ELSE IF ~is_dir(f, ParentOf(link)) THEN FsErr("NotFound", f)
    ELSE FsOk(Put(f, link, SymlinkNode(target)))

\* File::set_permissions through an open descriptor
set_permissions(f, path, mode) ==
    Put(f, path, [f[path] EXCEPT !.mode = mode])

\* std::fs::read_dir: the names of the entries of a directory
read_dir(f, path) ==
    IF ~is_dir(f, path) THEN Err("NotFound")
    ELSE Ok({q[Len(q)] : q \in Children(f, path)})

\* File::open and read to the end
read_file(f, path) ==
    LET o == open(f, path)
    IN  IF ~o.ok THEN Err(o.err)
        ELSE IF f[o.path].kind = "file" THEN Ok(f[o.path].content)
        ELSE Err("IsADirectory")

(***************************************************************************)
(* store.rs: paths                                                         *)
(***************************************************************************)
block_relpath(sig) == <<"block", b32enc(sig)>>
object_relpath(key) == <<"object", b32enc(key)>>

\* random_id: the n-th draw of 15 random bytes, in base 32
random_id(n) == b32enc([i \in 1..ID_SIZE |-> (n + 3 * i) % 256])

temp_path(n) == <<"tmp", random_id(n)>>
object_path(key) == object_relpath(key)
block_path(sig) == block_relpath(sig)

\* Store::open_object, Store::open_block
open_object(f, key) == read_file(f, object_path(key))
open_block(f, sig) == read_file(f, block_path(sig))

(***************************************************************************)
(* The store's callers.  Each system call of an operation is one step, so  *)
(* callers interleave between any two of them.                             *)
(***************************************************************************)
Callers == {1, 2}

\* what the store is given to write
Objects == {[i \in 1..n |-> 103 + i] : n \in 0..MaxLen}
StoreBlocks ==
    {SigBytes(1) \o PayloadOf(1, 1, "none"), SigBytes(1) \o PayloadOf(1, 1, "counter"),
     SigBytes(2) \o PayloadOf(2, 2, "none")}

NoRet == [ok |-> FALSE, err |-> "", val |-> {}]

\* what a call remembers of the store as it was when the call began
NoPre == [held |-> FALSE, names |-> {}, staged |-> {}, src |-> <<>>]

\* no file is open
NoFile == [kind |-> "none", content |-> <<>>]

\* tmp is the path to_canonical moves: the staging file, or the imported source
IdleProc ==
    [pc |-> "idle", op |-> "none", content |-> <<>>, tmp |-> <<>>, dst |-> <<>>,
     val |-> <<>>, left |-> 0, ret |-> NoRet, pre |-> NoPre,
     file |-> <<>>, link |-> <<>>, dirs |-> <<>>, entries |-> <<>>,
     files |-> <<>>, time |-> 0, committed |-> FALSE,
     piped |-> <<>>, nread |-> 0, opened |-> NoFile]

\* the staging directory and the staging files in it
Staged(f) == {q \in DOMAIN f : q[1] = "tmp"}

\* the committed entries: what object/ and block/ hold
Committed(f) == {q \in DOMAIN f : Len(q) = 2 /\ q[1] \in {"object", "block"}}

\* an empty store and its callers, each with n calls to make
InitStore(callers, n) ==
    /\ fs = EmptyFs
    /\ procs = callers
    /\ proc = [p \in callers |-> [IdleProc EXCEPT !.left = n]]
    /\ disk = NoDisk

\* the same on a machine that may lose power: the disk is followed
InitDurable(callers, n) ==
    /\ fs = EmptyFs
    /\ procs = callers
    /\ proc = [p \in callers |-> [IdleProc EXCEPT !.left = n]]
    /\ disk = DiskOf(EmptyFs)

CanCall(p) == proc[p].pc \in {"idle", "done"} /\ proc[p].left > 0

\* the last call of p was op and has returned
Finished(p, op) == proc[p].pc = "done" /\ proc[p].op = op

Return(p, result) ==
    proc' = [proc EXCEPT ![p].pc = "done", ![p].ret = result, ![p].tmp = <<>>]

Goto(p, pc) == proc' = [proc EXCEPT ![p].pc = pc]

\* the staging id of a call: random, so unlike the id of any other call
StagingId(p, left) == 100 * p + left

\* what is at each of a set of paths, and what reading it gives
Snapshot(f, paths) ==
    [q \in paths \cap DOMAIN f |->
        [kind |-> f[q].kind, content |-> f[q].content, read |-> read_file(f, q)]]

\* entry of write_object / write_block up to temp_path() in _write_content
StartLinked(p, op, content, val, dst, link, dirs) ==
    /\ CanCall(p)
    /\ proc' = [proc EXCEPT ![p] =
            [IdleProc EXCEPT
                !.pc = "wc_isdir", !.op = op, !.content = content,
                !.tmp = temp_path(StagingId(p, proc[p].left)),
                !.dst = dst, !.val = val, !.left = proc[p].left - 1,
                !.link = link, !.dirs = dirs,
                !.piped = proc[p].piped, !.nread = proc[p].nread,
                !.pre = [NoPre EXCEPT !.held = read_file(fs, dst) = Ok(content),
                                      !.names = Committed(fs),
                                      !.staged = Staged(fs),
                                      !.src = Snapshot(fs, {link})]]]
    /\ UNCHANGED <<fs, procs, disk, fetchVars>>

Start(p, op, content, val, dst) == StartLinked(p, op, content, val, dst, <<>>, <<>>)

\* Store::write_object: key is the SHA-384 of the bytes
write_object(p, object) ==
    LET key == Sha384(object)
    IN  Start(p, "write_object", object, key, object_path(key))

\* (mutant) sig is the last 64 bytes
write_block_lastbytes(p, block) ==
    LET sig == SubSeq(block, Len(block) - SIG_SIZE + 1, Len(block))
    IN  Start(p, "write_block", block, sig, block_path(sig))

\* Store::write_block: sig is the first 64 bytes
write_block(p, block) ==
    LET sig == SubSeq(block, 1, SIG_SIZE)
    IN  Start(p, "write_block", block, sig, block_path(sig))

\* _write_content, create_dir_if_needed(tmp/): the is_dir test
WcIsDir(p) ==
    /\ proc[p].pc = "wc_isdir"
    /\ Goto(p, IF is_dir(fs, ParentOf(proc[p].tmp)) THEN "wc_open" ELSE "wc_mkdir")
    /\ UNCHANGED <<fs, procs, disk, fetchVars>>

\* _write_content, create_dir_if_needed(tmp/): create_dir
WcMkdir(p) ==
    /\ proc[p].pc = "wc_mkdir"
    /\ LET r == create_dir(fs, ParentOf(proc[p].tmp))
       IN  /\ fs' = r.fs
           /\ IF r.ok THEN Goto(p, "wc_open") ELSE Return(p, Err(r.err))
    /\ UNCHANGED <<procs, disk, fetchVars>>

\* (mutant) a single write(2) instead of write_all
write_once_done(content, written) == written > 0 \/ Len(content) = 0

\* write_all returns once every byte has been written
write_all_done(content, written) == written = Len(content)

\* _write_content: the staging file is created, exclusively, with mode 0400
WcOpen(p) ==
    /\ proc[p].pc = "wc_open"
    /\ LET r == open_create_new(fs, proc[p].tmp, MODE_RO)
       IN  /\ fs' = r.fs
           /\ IF ~r.ok THEN Return(p, Err(r.err))
              ELSE IF write_all_done(proc[p].content, 0) THEN Goto(p, "wc_sync")
              ELSE Goto(p, "wc_write")
           /\ disk' = IF r.ok THEN Dirtied(disk, proc[p].tmp) ELSE disk
    /\ UNCHANGED <<procs, fetchVars>>

\* what one write(2) may transfer: all that remains or, the first time, half
WriteSizes(remaining, written) ==
    {remaining} \cup (IF written = 0 /\ remaining >= 2 THEN {(remaining + 1) \div 2} ELSE {})

\* _write_content: one write(2) of write_all
WcWrite(p) ==
    /\ proc[p].pc = "wc_write"
    /\ LET content == proc[p].content
           written == Len(fs[proc[p].tmp].content)
       IN  \E n \in WriteSizes(Len(content) - written, written) :
              /\ fs' = write(fs, proc[p].tmp, SubSeq(content, written + 1, written + n))
              /\ IF write_all_done(content, written + n)
                 THEN Goto(p, "wc_sync")
                 ELSE UNCHANGED proc
    /\ disk' = Dirtied(disk, proc[p].tmp)
    /\ UNCHANGED <<procs, fetchVars>>

\* _write_content: sync_all, then the path is returned
WcSync(p) ==
    /\ proc[p].pc = "wc_sync"
    /\ fs' = sync_all(fs, proc[p].tmp)
    /\ disk' \in Flushed(disk, fs', proc[p].tmp)
    /\ Goto(p, "tc_isdir")
    /\ UNCHANGED <<procs, fetchVars>>

\* to_canonical, create_dir_if_needed(parent of dst): the is_dir test
TcIsDir(p) ==
    /\ proc[p].pc = "tc_isdir"
    /\ Goto(p, IF is_dir(fs, ParentOf(proc[p].dst)) THEN "tc_rename" ELSE "tc_mkdir")
    /\ UNCHANGED <<fs, procs, disk, fetchVars>>

\* to_canonical, create_dir_if_needed(parent of dst): create_dir
TcMkdir(p) ==
    /\ proc[p].pc = "tc_mkdir"
    /\ LET r == create_dir(fs, ParentOf(proc[p].dst))
       IN  /\ fs' = r.fs
           /\ IF r.ok THEN Goto(p, "tc_rename") ELSE Return(p, Err(r.err))
    /\ UNCHANGED <<procs, disk, fetchVars>>

\* what follows `to_canonical(..)?` in the operation that called it
Committing(pr) ==
    LET next == CASE pr.op = "write_manifest" -> "wm_symlink"
                  [] pr.op = "write_tail" -> "wt_isdir"
                  [] pr.op = "import_artifacts" -> "ia_symlink"
                  [] OTHER -> "done"
    IN  [pr EXCEPT
            !.committed = TRUE,
            !.pc = next,
            !.tmp = IF next = "done" THEN <<>> ELSE @,
            !.ret = IF next = "done" THEN Ok(pr.val) ELSE @]

\* a file that import_object holds open stays open when it is renamed, and
\* when another file is renamed over it: the descriptor is on the file, not
\* on the path; a file renamed over has no path any more
Renamed(pr, src, dst, f) ==
    IF pr.pc \notin {"io_chmod", "io_sync", "io_hash"} \/ src = dst THEN pr
    ELSE IF pr.file = src THEN [pr EXCEPT !.file = dst]
    ELSE IF pr.file = dst
    THEN [pr EXCEPT !.file = <<>>,
                    !.opened = [kind |-> f[dst].kind, content |-> f[dst].content]]
    ELSE pr

\* the callers whose open file the rename of caller p replaces: the file
\* loses its last link, which changes its inode
Orphaned(p) ==
    {q \in procs \ {p} :
        /\ proc[q].pc \in {"io_chmod", "io_sync", "io_hash"}
        /\ proc[p].tmp # proc[p].dst
        /\ proc[q].file = proc[p].dst}

\* (mutant) the file is linked at dst and stays at src as well
TcRename_copy(p) ==
    /\ proc[p].pc = "tc_rename"
    /\ LET r == rename(fs, proc[p].tmp, proc[p].dst)
       IN  /\ fs' = IF r.ok THEN Put(r.fs, proc[p].tmp, fs[proc[p].tmp]) ELSE r.fs
           /\ IF r.ok
              THEN proc' = [proc EXCEPT ![p] = Committing(@)]
              ELSE Return(p, Err(r.err))
    /\ UNCHANGED <<procs, disk, fetchVars>>

\* to_canonical: rename(src, dst), then the key or signature is returned
TcRename(p) ==
    /\ proc[p].pc = "tc_rename"
    /\ LET r == rename(fs, proc[p].tmp, proc[p].dst)
       IN  /\ fs' = r.fs
           /\ IF r.ok
              THEN proc' = [q \in procs |->
                              IF q = p THEN Committing(proc[p])
                              ELSE Renamed(proc[q], proc[p].tmp, proc[p].dst, fs)]
              ELSE Return(p, Err(r.err))
           /\ disk' = IF r.ok /\ disk.tracked
                      THEN [disk EXCEPT
                               !.dirty = ((@ \ {proc[p].tmp}) \cup {proc[p].dst})
                                            \cup {Orphan : q \in Orphaned(p)}]
                      ELSE disk
    /\ UNCHANGED <<procs, fetchVars>>

\* Store::remove_tmp_dir
remove_tmp_dir(p) ==
    /\ CanCall(p)
    /\ LET r == remove_dir(fs, <<"tmp">>)
       IN  /\ fs' = r.fs
           /\ proc' = [proc EXCEPT ![p] =
                  [IdleProc EXCEPT !.pc = "done", !.op = "remove_tmp_dir",
                                   !.left = proc[p].left - 1,
                                   !.pre = [NoPre EXCEPT !.staged = Staged(fs)],
                                   !.ret = IF r.ok THEN Ok(<<>>) ELSE Err(r.err)]]
    /\ UNCHANGED <<procs, disk, fetchVars>>

(***************************************************************************)
(* store.rs: imports, the manifest and the references                     *)
(***************************************************************************)
\* (mutant) one directory level up instead of two
tail_to_block_shallow(sig) == <<"..">> \o block_relpath(sig)

\* tail/PROJECT/BRANCH --> ../../block/B32SIGNATURE
tail_to_block(sig) == <<"..", "..">> \o block_relpath(sig)

ArtifactsDir == <<"artifacts">>
ArtifactNames == {"a", "b"}
Projects == {"stuff"}
Branches == {"junk", "master"}
Times == {FirstTimestamp}

\* BTreeMap::insert: one value for each key, whatever the order of insertion
BTreeMap_insert(files, name, digest) ==
    [n \in DOMAIN files \cup {name} |-> IF n = name THEN digest ELSE files[n]]

\* the orders in which read_dir may enumerate a set of names
Orders(names) ==
    {o \in [1..Cardinality(names) -> names] :
        \A i, j \in 1..Cardinality(names) : o[i] = o[j] => i = j}

\* Manifest::new(time, path) over the artifacts directory, as build() calls
\* it: read_dir opens the directory; no entry is read yet
manifest_new(p, time) ==
    /\ CanCall(p)
    /\ LET opened == read_dir(fs, ArtifactsDir)
           call == [IdleProc EXCEPT
                       !.op = "manifest_new", !.time = time,
                       !.left = proc[p].left - 1,
                       !.pre = [NoPre EXCEPT
                                   !.src = Snapshot(fs, Children(fs, ArtifactsDir))]]
       IN  proc' = [proc EXCEPT ![p] =
                       IF opened.ok THEN [call EXCEPT !.pc = "mn_list"]
                       ELSE [call EXCEPT !.pc = "done", !.ret = Err(opened.err)]]
    /\ UNCHANGED <<fs, procs, disk, fetchVars>>

\* Manifest::new, the first step of the iteration: the entries are read, as
\* they are now, in an order the file system chooses
MnList(p) ==
    /\ proc[p].pc = "mn_list"
    /\ \E order \in Orders(ValOf(read_dir(fs, ArtifactsDir))) :
          proc' = [proc EXCEPT ![p].pc = "mn_open", ![p].entries = order]
    /\ UNCHANGED <<fs, procs, disk, fetchVars>>

\* Manifest::new: File::open of the next entry, or the manifest is returned;
\* the file opened is the one at the path now, wherever it is moved later
MnOpen(p) ==
    /\ proc[p].pc = "mn_open"
    /\ IF proc[p].entries = <<>>
       THEN Return(p, Ok([time |-> proc[p].time, files |-> proc[p].files]))
       ELSE LET o == open(fs, Append(ArtifactsDir, Head(proc[p].entries)))
            IN  IF ~o.ok THEN Return(p, Err(o.err))
                ELSE proc' = [proc EXCEPT
                         ![p].pc = "mn_read",
                         ![p].opened = [kind |-> fs[o.path].kind,
                                        content |-> fs[o.path].content]]
    /\ UNCHANGED <<fs, procs, disk, fetchVars>>

\* Manifest::new: Sha384::new reads the file to its end, files.insert
MnRead(p) ==
    /\ proc[p].pc = "mn_read"
    /\ IF proc[p].opened.kind # "file" THEN Return(p, Err("IsADirectory"))
       ELSE proc' = [proc EXCEPT
                ![p].pc = "mn_open",
                ![p].entries = Tail(proc[p].entries),
                ![p].opened = NoFile,
                ![p].files = BTreeMap_insert(proc[p].files, Head(proc[p].entries),
                                             Sha384(proc[p].opened.content))]
    /\ UNCHANGED <<fs, procs, disk, fetchVars>>

\* import_object, File::open(src): the call goes on with the file opened
ImportFrom(pr, src, f) ==
    LET o == open(f, src)
    IN  IF o.ok
        THEN [pr EXCEPT !.pc = "io_chmod", !.tmp = src, !.file = o.path]
        ELSE [pr EXCEPT !.pc = "done", !.ret = Err(o.err)]

\* Store::import_object(src)
import_object(p, src) ==
    /\ CanCall(p)
    /\ proc' = [proc EXCEPT ![p] =
          ImportFrom([IdleProc EXCEPT
                         !.op = "import_object", !.left = proc[p].left - 1,
                         !.pre = [NoPre EXCEPT !.names = Committed(fs),
                                               !.staged = Staged(fs),
                                               !.src = Snapshot(fs, {src})]],
                     src, fs)]
    /\ UNCHANGED <<fs, procs, disk, fetchVars>>

\* import_object: file.set_permissions(0o400)
IoChmod(p) ==
    /\ proc[p].pc = "io_chmod"
    /\ fs' = IF proc[p].file = <<>> THEN fs
             ELSE set_permissions(fs, proc[p].file, MODE_RO)
    /\ disk' = Dirtied(disk, IF proc[p].file = <<>> THEN Orphan ELSE proc[p].file)
    /\ Goto(p, "io_sync")
    /\ UNCHANGED <<procs, fetchVars>>

\* import_object: file.sync_all()
IoSync(p) ==
    /\ proc[p].pc = "io_sync"
    /\ fs' = IF proc[p].file = <<>> THEN fs ELSE sync_all(fs, proc[p].file)
    /\ disk' \in Flushed(disk, fs', IF proc[p].file = <<>> THEN Orphan
                                    ELSE proc[p].file)
    /\ Goto(p, "io_hash")
    /\ UNCHANGED <<procs, fetchVars>>

\* import_object: the file is read to its end and hashed; dst is object/<key>
IoHash(p) ==
    /\ proc[p].pc = "io_hash"
    /\ LET file == IF proc[p].file = <<>> THEN proc[p].opened ELSE fs[proc[p].file]
       IN  IF file.kind # "file" THEN Return(p, Err("IsADirectory"))
           ELSE LET key == Sha384(file.content)
                IN  proc' = [proc EXCEPT ![p].pc = "tc_isdir", ![p].val = key,
                                         ![p].opened = NoFile,
                                         ![p].dst = object_path(key)]
    /\ UNCHANGED <<fs, procs, disk, fetchVars>>

\* Store::import_artifacts(time): read_dir opens the directory; no entry is
\* read yet
import_artifacts(p, time) ==
    /\ CanCall(p)
    /\ LET opened == read_dir(fs, ArtifactsDir)
           call == [IdleProc EXCEPT
                       !.op = "import_artifacts", !.time = time,
                       !.left = proc[p].left - 1,
                       !.pre = [NoPre EXCEPT
                                   !.names = Committed(fs), !.staged = Staged(fs),
                                   !.src = Snapshot(fs, Children(fs, ArtifactsDir))]]
       IN  proc' = [proc EXCEPT ![p] =
                       IF opened.ok THEN [call EXCEPT !.pc = "ia_list"]
                       ELSE [call EXCEPT !.pc = "done", !.ret = Err(opened.err)]]
    /\ UNCHANGED <<fs, procs, disk, fetchVars>>

\* import_artifacts, the first step of the iteration: the entries are read,
\* as they are now, in an order the file system chooses
IaList(p) ==
    /\ proc[p].pc = "ia_list"
    /\ \E order \in Orders(ValOf(read_dir(fs, ArtifactsDir))) :
          proc' = [proc EXCEPT ![p].pc = "ia_next", ![p].entries = order]
    /\ UNCHANGED <<fs, procs, disk, fetchVars>>

\* import_artifacts: the next entry is imported, or the manifest is returned
IaNext(p) ==
    /\ proc[p].pc = "ia_next"
    /\ IF proc[p].entries = <<>>
       THEN Return(p, Ok([time |-> proc[p].time, files |-> proc[p].files]))
       ELSE LET path == Append(ArtifactsDir, Head(proc[p].entries))
            IN  proc' = [proc EXCEPT ![p] =
                            ImportFrom([proc[p] EXCEPT !.link = path], path, fs)]
    /\ UNCHANGED <<fs, procs, disk, fetchVars>>

\* import_artifacts: files.insert(name, b32enc(key)), then
\* symlink("../object/<key>", entry.path())
IaSymlink(p) ==
    /\ proc[p].pc = "ia_symlink"
    /\ LET key == proc[p].val
           r == symlink(fs, <<"..">> \o object_relpath(key), proc[p].link)
       IN  /\ fs' = r.fs
           /\ IF ~r.ok THEN Return(p, Err(r.err))
              ELSE proc' = [proc EXCEPT
                       ![p].pc = "ia_next",
                       ![p].entries = Tail(proc[p].entries),
                       ![p].files = BTreeMap_insert(proc[p].files,
                                        Head(proc[p].entries), b32enc(key))]
    /\ UNCHANGED <<procs, disk, fetchVars>>

\* Store::write_manifest: write_object, then the reference manifest.json
write_manifest(p, object) ==
    LET key == Sha384(object)
    IN  StartLinked(p, "write_manifest", object, key, object_path(key),
                    <<"manifest.json">>, <<>>)

\* write_manifest: symlink("object/<key>", manifest.json)
WmSymlink(p) ==
    /\ proc[p].pc = "wm_symlink"
    /\ LET r == symlink(fs, object_relpath(proc[p].val), proc[p].link)
       IN  /\ fs' = r.fs
           /\ Return(p, IF r.ok THEN Ok(proc[p].val) ELSE Err(r.err))
    /\ UNCHANGED <<procs, disk, fetchVars>>

\* Store::write_tail: write_block, then tail/, tail/<project> and the reference
write_tail(p, project, branch, block) ==
    LET sig == SubSeq(block, 1, SIG_SIZE)
    IN  StartLinked(p, "write_tail", block, sig, block_path(sig),
                    <<"tail", project, branch>>,
                    << <<"tail">>, <<"tail", project>> >>)

\* the call goes on with the directories still to be made, or with the symlink
DirMade(p) ==
    proc' = [proc EXCEPT
        ![p].dirs = Tail(proc[p].dirs),
        ![p].pc = IF Len(proc[p].dirs) = 1 THEN "wt_symlink" ELSE "wt_isdir"]

\* write_tail, create_dir_if_needed: the is_dir test
WtIsDir(p) ==
    /\ proc[p].pc = "wt_isdir"
    /\ IF is_dir(fs, Head(proc[p].dirs)) THEN DirMade(p) ELSE Goto(p, "wt_mkdir")
    /\ UNCHANGED <<fs, procs, disk, fetchVars>>

\* write_tail, create_dir_if_needed: create_dir
WtMkdir(p) ==
    /\ proc[p].pc = "wt_mkdir"
    /\ LET r == create_dir(fs, Head(proc[p].dirs))
       IN  /\ fs' = r.fs
           /\ IF r.ok THEN DirMade(p) ELSE Return(p, Err(r.err))
    /\ UNCHANGED <<procs, disk, fetchVars>>

\* (mutant) all or nothing: a failure to make the reference removes the block
WtSymlink_rollback(p) ==
    /\ proc[p].pc = "wt_symlink"
    /\ LET r == symlink(fs, tail_to_block(proc[p].val), proc[p].link)
       IN  /\ fs' = IF r.ok THEN r.fs ELSE Remove(r.fs, proc[p].dst)
           /\ Return(p, IF r.ok THEN Ok(proc[p].val) ELSE Err(r.err))
    /\ UNCHANGED <<procs, disk, fetchVars>>

\* write_tail: symlink("../../block/<sig>", tail/<project>/<branch>)
WtSymlink(p) ==
    /\ proc[p].pc = "wt_symlink"
    /\ LET r == symlink(fs, tail_to_block(proc[p].val), proc[p].link)
       IN  /\ fs' = r.fs
           /\ Return(p, IF r.ok THEN Ok(proc[p].val) ELSE Err(r.err))
    /\ UNCHANGED <<procs, disk, fetchVars>>

(***************************************************************************)
(* pihsm.rs, build.rs: the manifest is signed and the block is stored      *)
(***************************************************************************)
\* what /usr/bin/pihsm-request may write to its standard output: a block,
\* a block cut short, a block and one more byte, nothing
SignerOutputs ==
    StoreBlocks
        \cup {SubSeq(b, 1, BLOCK_SIZE - 1) : b \in StoreBlocks}
        \cup {b \o <<0>> : b \in StoreBlocks}
        \cup {<<>>}

\* what one read into a buffer of 400 bytes may return when the pipe is to
\* carry out: 0 at end of file, else what has arrived, 1 byte up to the
\* size of the buffer
FirstReads(out) ==
    IF out = <<>> THEN {0}
    ELSE {n \in {1, BLOCK_SIZE \div 2, BLOCK_SIZE - 1, BLOCK_SIZE} : n <= Len(out)}

\* how Command::spawn of the signer may end, the errors of pipe2, fork and
\* execve by their kind: the file is missing (ENOENT) or may not be executed
\* (EACCES, EPERM), is being written (ETXTBSY), is reached through a loop of
\* links (ELOOP), through a file (ENOTDIR) or through a name that is too
\* long (ENAMETOOLONG), is a directory for the loader (EISDIR) or has a
\* header the kernel refuses (EINVAL); the environment is too large
\* (E2BIG); the process table or the memory is full (EAGAIN, ENOMEM); a
\* signal arrived (EINTR); or the error has no kind of its own (ENOEXEC,
\* EMFILE, ENFILE, EIO, ELIBBAD)
Spawns ==
    {"ok", "NotFound", "PermissionDenied", "ExecutableFileBusy",
     "FilesystemLoop", "NotADirectory", "InvalidFilename", "IsADirectory",
     "InvalidInput", "ArgumentListTooLong", "WouldBlock", "OutOfMemory",
     "Interrupted", "Uncategorized"}

\* build: store.write_manifest(&manifest_bytes), the first call of a build
build_write_manifest(p, object) ==
    /\ proc[p].op = "none"
    /\ write_manifest(p, object)

\* build with use_pihsm: sign_manifest(&manifest_bytes) once write_manifest
\* has succeeded; sign_manifest: println!, which panics when the standard
\* output of the build cannot be written, then the child is spawned, or
\* spawn fails
sign_manifest(p, printed, spawn, out) ==
    /\ CanCall(p)
    /\ Finished(p, "write_manifest")
    /\ proc[p].ret.ok
    /\ LET started == printed /\ spawn = "ok"
       IN  proc' = [proc EXCEPT ![p] =
               [IdleProc EXCEPT
                   !.pc = IF started THEN "sm_write" ELSE "done",
                   !.op = "sign_manifest",
                   !.content = proc[p].content,
                   !.left = proc[p].left - 1,
                   !.piped = IF started THEN out ELSE <<>>,
                   !.ret = IF started THEN NoRet
                           ELSE IF ~printed THEN Err("panic")
                           ELSE Err(spawn)]]
    /\ UNCHANGED <<fs, procs, disk, fetchVars>>

\* sign_manifest: stdin.write_all(manifest) and flush; the write fails when
\* the signer has closed its standard input
SmWrite(p, taken) ==
    /\ proc[p].pc = "sm_write"
    /\ IF taken THEN Goto(p, "sm_read") ELSE Return(p, Err("BrokenPipe"))
    /\ UNCHANGED <<fs, procs, disk, fetchVars>>

\* sign_manifest: one read into response; it returns n bytes, or -1 when a
\* signal interrupts it (EINTR), an error that `?` returns; anything but 400
\* bytes panics
SmRead(p, n) ==
    /\ proc[p].pc = "sm_read"
    /\ n \in FirstReads(proc[p].piped) \cup {-1}
    /\ IF n = -1 THEN Return(p, Err("Interrupted"))
       ELSE IF n # BLOCK_SIZE
       THEN proc' = [proc EXCEPT ![p].nread = n, ![p].pc = "done",
                                 ![p].ret = Err("panic")]
       ELSE proc' = [proc EXCEPT ![p].nread = n,
                                 ![p].val = SubSeq(proc[p].piped, 1, n),
                                 ![p].pc = "sm_wait"]
    /\ UNCHANGED <<fs, procs, disk, fetchVars>>

\* sign_manifest: child.wait()?, whatever the exit status, println!, then
\* Ok(response); wait fails (ECHILD) when the process ignores SIGCHLD, and
\* println! panics when the standard output of the build cannot be written
SmWait(p, waited, printed) ==
    /\ proc[p].pc = "sm_wait"
    /\ proc' = [proc EXCEPT
            ![p].pc = "done",
            ![p].ret = IF ~waited THEN Err("Uncategorized")
                       ELSE IF ~printed THEN Err("panic")
                       ELSE Ok(proc[p].val)]
    /\ UNCHANGED <<fs, procs, disk, fetchVars>>

\* build: store.write_block(&response) once sign_manifest has returned Ok
build_write_block(p) ==
    /\ Finished(p, "sign_manifest")
    /\ proc[p].ret.ok
    /\ write_block(p, ValOf(proc[p].ret))

\* build: store.remove_tmp_dir() once write_block has succeeded, or, without
\* use_pihsm, once write_manifest has
build_remove_tmp_dir(p) ==
    /\ Finished(p, "write_block") \/ Finished(p, "write_manifest")
    /\ proc[p].ret.ok
    /\ remove_tmp_dir(p)

\* what a file that was not synced may hold after a crash
CrashPrefix(content, keep) ==
    IF keep = 0 THEN <<>>
    ELSE IF keep = 1 THEN SubSeq(content, 1, (Len(content) + 1) \div 2)
    ELSE content

Unsynced(f) == {q \in DOMAIN f : ~f[q].synced}

\* the journal is committed, as it is every few seconds: the directories,
\* entries and renames made so far are on the disk
JournalCommit ==
    /\ disk.tracked
    /\ disk.tree # fs \/ disk.dirty # {}
    /\ disk' = DiskOf(fs)
    /\ UNCHANGED <<fs, proc, procs, fetchVars>>

\* the power is cut, in the middle of a call or after it returned: every
\* call in progress is lost; the tree is the one of the last commit of the
\* journal, so what was made, created, renamed or removed since is undone,
\* and a file of that tree that was not synced keeps only a prefix of its
\* bytes
Crash ==
    /\ disk.tracked
    /\ \E keep \in [Unsynced(disk.tree) -> {0, 1, 2}] :
          fs' = [q \in DOMAIN disk.tree |->
                    IF q \in Unsynced(disk.tree)
                    THEN [disk.tree[q] EXCEPT
                             !.content = CrashPrefix(@, keep[q]), !.synced = TRUE]
                    ELSE disk.tree[q]]
    /\ disk' = DiskOf(fs')
    /\ proc' = [p \in procs |-> [IdleProc EXCEPT !.left = proc[p].left]]
    /\ UNCHANGED <<procs, fetchVars>>

Next ==
    \/ \E p \in procs, object \in Objects : write_object(p, object)
    \/ \E p \in procs, block \in StoreBlocks : write_block(p, block)
    \/ \E p \in procs : WcIsDir(p)
    \/ \E p \in procs : WcMkdir(p)
    \/ \E p \in procs : WcOpen(p)
    \/ \E p \in procs : WcWrite(p)
    \/ \E p \in procs : WcSync(p)
    \/ \E p \in procs : TcIsDir(p)
    \/ \E p \in procs : TcMkdir(p)
    \/ \E p \in procs : TcRename(p)
    \/ \E p \in procs : remove_tmp_dir(p)
    \/ JournalCommit
    \/ Crash

\* every operation of the store, step by step, on a machine that stays up
NextStore ==
    \/ \E p \in procs, object \in Objects : write_object(p, object)
    \/ \E p \in procs, block \in StoreBlocks : write_block(p, block)
    \/ \E p \in procs : WcIsDir(p)
    \/ \E p \in procs : WcMkdir(p)
    \/ \E p \in procs : WcOpen(p)
    \/ \E p \in procs : WcWrite(p)
    \/ \E p \in procs : WcSync(p)
    \/ \E p \in procs : TcIsDir(p)
    \/ \E p \in procs : TcMkdir(p)
    \/ \E p \in procs : TcRename(p)
    \/ \E p \in procs : remove_tmp_dir(p)
    \/ \E p \in procs, time \in Times : manifest_new(p, time)
    \/ \E p \in procs : MnList(p)
    \/ \E p \in procs : MnOpen(p)
    \/ \E p \in procs : MnRead(p)
    \/ \E p \in procs, name \in ArtifactNames :
          import_object(p, Append(ArtifactsDir, name))
    \/ \E p \in procs : IoChmod(p)
    \/ \E p \in procs : IoSync(p)
    \/ \E p \in procs : IoHash(p)
    \/ \E p \in procs, time \in Times : import_artifacts(p, time)
    \/ \E p \in procs : IaList(p)
    \/ \E p \in procs : IaNext(p)
    \/ \E p \in procs : IaSymlink(p)
    \/ \E p \in procs, object \in Objects : write_manifest(p, object)
    \/ \E p \in procs : WmSymlink(p)
    \/ \E p \in procs, project \in Projects, branch \in Branches, block \in StoreBlocks :
          write_tail(p, project, branch, block)
    \/ \E p \in procs : WtIsDir(p)
    \/ \E p \in procs : WtMkdir(p)
    \/ \E p \in procs : WtSymlink(p)

\* a build reading the artifacts while they are imported, on a machine that
\* may lose its power
NextShared ==
    \/ \E p \in procs, time \in Times : manifest_new(p, time)
    \/ \E p \in procs : MnList(p)
    \/ \E p \in procs : MnOpen(p)
    \/ \E p \in procs : MnRead(p)
    \/ \E p \in procs, name \in ArtifactNames :
          import_object(p, Append(ArtifactsDir, name))
    \/ \E p \in procs : IoChmod(p)
    \/ \E p \in procs : IoSync(p)
    \/ \E p \in procs : IoHash(p)
    \/ \E p \in procs : TcIsDir(p)
    \/ \E p \in procs : TcMkdir(p)
    \/ \E p \in procs : TcRename(p)
    \/ \E p \in procs, time \in Times : import_artifacts(p, time)
    \/ \E p \in procs : IaList(p)
    \/ \E p \in procs : IaNext(p)
    \/ \E p \in procs : IaSymlink(p)
    \/ JournalCommit
    \/ Crash

(***************************************************************************)
(* download.rs: the download command                                       *)
(***************************************************************************)
\* the path of the tail request, and of an object request
tail_path(project, branch) == "tail/" \o project \o "/" \o branch
object_url_path(digest) == "object/" \o digest

\* the manifests the signers sign: the body <<k, n>> is the JSON of the
\* n-th manifest of signer k, and PayloadOf(k, n, diff) carries its digest
ManifestBodies == {<<k, n>> : k \in Signers, n \in 1..MaxSigned}

\* err_str: the text of an error is the text of Error::description, which
\* is the same for every error
err_str(err) == "description() is deprecated; use Display"

\* the names the manifests of the model list, in the order a BTreeMap gives
ManifestNames == <<"a", "b", "c">>

\* serde_json::from_slice::<Manifest>, on the bodies of the model, the
\* digests as the text download gives to Downloader::object: a manifest of
\* signer 1 lists a, one line without its end, b, one line, and c with a
\* digest text cut to 76 characters; what signer 2 signs, and anything
\* else, is not the JSON of a manifest
serde_json_from_slice(body) ==
    IF body \in ManifestBodies /\ body[1] = 1
    THEN Ok([time |-> FirstTimestamp + body[2],
             files |-> [name \in {"a", "b", "c"} |->
                          CASE name = "a" -> DigestOf[<<104>>]
                            [] name = "b" -> DigestOf[<<104, NEWLINE>>]
                            [] name = "c" ->
                                  SubSeq(DigestOf[<<104>>], 1, DigestTextLen - 1)]])
    ELSE Err(err_str("expected value"))

\* what the server may answer to an object request: a manifest, or a
\* content no longer than the artifacts the manifests list
ServedBodies == {c \in Contents : Len(c) <= 2} \cup ManifestBodies

\* file_opt: no file, each file the manifests list, a file they do not list
FileOpts == {{}, {"a"}, {"b"}, {"c"}, {"zz"}}

\* the keys the command is given
CommandKeys == {SignerKey(k) : k \in Signers}

\* Downloader::download sends the one GET of a call and has its response
Called(c, path, resp) ==
    [c EXCEPT !.got = Append(@, [path |-> path, status |-> resp.status,
                                 body |-> resp.body])]

\* the command returns the error of a step
Failed(c, step, r) == [c EXCEPT !.pc = "failed", !.at = step, !.ret = r]

\* download: Downloader::new with the key and the arguments
download(key, file_opt) ==
    /\ NotFetched
    /\ cmd' = [NoCmd EXCEPT !.pc = "tail", !.key = key, !.file_opt = file_opt]
    /\ UNCHANGED <<signed, wire, res, storeVars>>

\* download: dl.tail()?
DlTail(status) ==
    /\ cmd.pc = "tail"
    /\ LET resp == [status |-> status, body |-> wire]
           r == Downloader_tail(cmd.key, resp)
           c == Called(cmd, tail_path("stuff", "master"), resp)
       IN  cmd' = IF r.ok
                  THEN [c EXCEPT !.pc = "manifest", !.block = r.val]
                  ELSE Failed(c, "tail", r)
    /\ UNCHANGED <<signed, wire, res, storeVars>>

\* the end of the last line of data, 0 when it holds no end of line
LastNewline(data) ==
    LET ends == {i \in 1..Len(data) : data[i] = NEWLINE}
    IN  IF ends = {} THEN 0 ELSE CHOOSE i \in ends : \A j \in ends : j <= i

\* stdout().write(&data), data shorter than the buffer of the LineWriter:
\* what it returns and the bytes that reach the standard output.  Data
\* without an end of line are held in the buffer and write returns Ok; they
\* are written when the process exits, an error at that moment is dropped.
\* Data with an end of line are written up to the last one: an error of
\* that write(2) is returned; else it has taken at least one byte, and
\* what follows the last line is held back as before
StdoutWrites(data) ==
    IF LastNewline(data) = 0
    THEN {[ok |-> TRUE, out |-> SubSeq(data, 1, n)] : n \in 0..Len(data)}
    ELSE {[ok |-> FALSE, out |-> <<>>]}
            \cup {[ok |-> TRUE, out |-> SubSeq(data, 1, n)] : n \in 1..Len(data)}

\* download: dl.object(&tail.digest)?, serde_json::from_slice, and the
\* look-up of the file, or the names printed when no file is asked for:
\* println! panics at the first name the standard output does not take, so
\* shown of them are printed
DlManifest(status, body, shown) ==
    /\ cmd.pc = "manifest"
    /\ cmd.file_opt # {} => shown = 0
    /\ LET tail == CHOOSE b \in cmd.block : TRUE
           resp == [status |-> status, body |-> body]
           r == Downloader_object(tail.digest, resp)
           c == Called(cmd, object_url_path(tail.digest), resp)
           m == IF r.ok THEN serde_json_from_slice(ValOf(r)) ELSE Err("")
       IN  cmd' =
             IF ~r.ok THEN Failed(c, "manifest", r)
             ELSE IF ~m.ok THEN Failed(c, "parse", m)
             ELSE IF cmd.file_opt = {} /\ shown = Len(ManifestNames)
             THEN [c EXCEPT !.pc = "done", !.manifest = m.val,
                            !.printed = DOMAIN ValOf(m).files, !.ret = Ok(<<>>)]
             ELSE IF cmd.file_opt = {}
             THEN [c EXCEPT !.pc = "panicked", !.at = "print", !.manifest = m.val,
                            !.printed = {ManifestNames[i] : i \in 1..shown},
                            !.ret = Err("panic")]
             ELSE IF cmd.file_opt \subseteq DOMAIN ValOf(m).files
             THEN [c EXCEPT !.pc = "artifact", !.manifest = m.val]
             ELSE Failed([c EXCEPT !.manifest = m.val], "lookup", Err("not found"))
    /\ UNCHANGED <<signed, wire, res, storeVars>>

\* download: dl.object(digest)? with the digest the manifest gives
DlArtifact(status, body) ==
    /\ cmd.pc = "artifact"
    /\ LET file == CHOOSE f \in cmd.file_opt : TRUE
           manifest == CHOOSE m \in cmd.manifest : TRUE
           digest == manifest.files[file]
           resp == [status |-> status, body |-> body]
           r == Downloader_object(digest, resp)
           c == Called(cmd, object_url_path(digest), resp)
       IN  cmd' = IF r.ok
                  THEN [c EXCEPT !.pc = "write", !.data = ValOf(r)]
                  ELSE Failed(c, "artifact", r)
    /\ UNCHANGED <<signed, wire, res, storeVars>>

\* download: stdout().write(&data).map_err(err_str)?, n of the bytes
\* reaching the standard output; the number write returns is not looked at
DlWrite(n, ok) ==
    /\ cmd.pc = "write"
    /\ n <= Len(cmd.data)
    /\ [ok |-> ok, out |-> SubSeq(cmd.data, 1, n)] \in StdoutWrites(cmd.data)
    /\ cmd' = IF ok
              THEN [cmd EXCEPT !.pc = "done", !.out = SubSeq(cmd.data, 1, n),
                               !.ret = Ok(<<>>)]
              ELSE Failed(cmd, "write", Err(err_str("write")))
    /\ UNCHANGED <<signed, wire, res, storeVars>>

\* the signers and the server, then one run of the download command
NextDownload ==
    \/ \E k \in Signers, diff \in Diffs : HsmSign(k, diff)
    \/ \E s \in signed : Replay(s)
    \/ \E k \in Signers, n \in 1..MaxSigned, diff \in Diffs : Forge(k, n, diff)
    \/ \E key \in CommandKeys, file_opt \in FileOpts : download(key, file_opt)
    \/ \E status \in Statuses : DlTail(status)
    \/ \E status \in Statuses, body \in ServedBodies, shown \in 0..Len(ManifestNames) :
          DlManifest(status, body, shown)
    \/ \E status \in Statuses, body \in ServedBodies : DlArtifact(status, body)
    \/ \E n \in 0..MaxLen, ok \in BOOLEAN : DlWrite(n, ok)

\* build: write_manifest, with use_pihsm sign_manifest and write_block, then
\* remove_tmp_dir; the first error ends it
NextBuild ==
    \/ \E p \in procs, object \in Objects : build_write_manifest(p, object)
    \/ \E p \in procs : WcIsDir(p)
    \/ \E p \in procs : WcMkdir(p)
    \/ \E p \in procs : WcOpen(p)
    \/ \E p \in procs : WcWrite(p)
    \/ \E p \in procs : WcSync(p)
    \/ \E p \in procs : TcIsDir(p)
    \/ \E p \in procs : TcMkdir(p)
    \/ \E p \in procs : TcRename(p)
    \/ \E p \in procs : WmSymlink(p)
    \/ \E p \in procs, printed \in BOOLEAN, spawn \in Spawns, out \in SignerOutputs :
          sign_manifest(p, printed, spawn, out)
    \/ \E p \in procs, taken \in BOOLEAN : SmWrite(p, taken)
    \/ \E p \in procs, n \in -1..BLOCK_SIZE : SmRead(p, n)
    \/ \E p \in procs, waited \in BOOLEAN, printed \in BOOLEAN :
          SmWait(p, waited, printed)
    \/ \E p \in procs : build_write_block(p)
    \/ \E p \in procs : build_remove_tmp_dir(p)

(***************************************************************************)
(* Specifications                                                          *)
(***************************************************************************)
\* the calls of one build: write_manifest, sign_manifest, write_block,
\* remove_tmp_dir
BuildCalls == 4

\* one build on an empty store
InitBuild == InitStore({1}, BuildCalls) /\ InitFetch
SpecBuild == InitBuild /\ [][NextBuild]_vars

\* one caller on an empty store
Init == InitDurable({1}, MaxCalls) /\ InitFetch
Spec == Init /\ [][Next]_vars

\* two callers on the same empty store, one call each
InitConc == InitDurable(Callers, 1) /\ InitFetch
SpecConc == InitConc /\ [][Next]_vars

\* an artifacts directory as a build leaves it: regular files, mode 0644
ArtifactsFs(content) ==
    [q \in {ArtifactsDir} \cup {Append(ArtifactsDir, n) : n \in ArtifactNames} |->
        IF q = ArtifactsDir THEN DirNode ELSE FileNode(content[q[2]], MODE_RW, TRUE)]

\* what the artifacts hold: one has the longest content, the other any
ArtifactContents ==
    {c \in [ArtifactNames -> Objects] : \E n \in ArtifactNames : Len(c[n]) = MaxLen}

\* one caller on a store that holds nothing but the artifacts of a build
InitArtifacts ==
    /\ \E content \in ArtifactContents : fs = ArtifactsFs(content)
    /\ procs = {1}
    /\ proc = [p \in procs |-> [IdleProc EXCEPT !.left = MaxCalls]]
    /\ disk = NoDisk
    /\ InitFetch
SpecStore == InitArtifacts /\ [][NextStore]_vars

\* two callers on that store, one call each: a build reading the artifacts
\* while another imports them
InitShared ==
    /\ \E content \in ArtifactContents : fs = ArtifactsFs(content)
    /\ procs = Callers
    /\ proc = [p \in procs |-> [IdleProc EXCEPT !.left = 1]]
    /\ disk = DiskOf(fs)
    /\ InitFetch
SpecShared == InitShared /\ [][NextShared]_vars

\* the signers, the server and one Downloader::tail
InitDownload == InitFetch /\ InitStore({}, 0)
SpecVerify == InitDownload /\ [][NextVerify]_vars

\* one Downloader::object
SpecObject == InitDownload /\ [][NextObject]_vars

\* the download command
SpecDownload == InitDownload /\ [][NextDownload]_vars

\* the digests of a manifest read and written
SpecDigest == InitDownload /\ [][NextDigest]_vars

(***************************************************************************)
(* Claims about the block verifier and the downloader                      *)
(***************************************************************************)
TailCall == res.op = "tail" /\ is_success(res.status)

\* the 400 bytes the tail call decodes, when the body is long enough
Decoded == SubSeq(res.data, 1, BLOCK_SIZE)

\* C1: decoding a tail body whose length is not exactly 400 fails with the
\* format error, and no Block is produced from it.
C1_WrongLengthRejected ==
    (TailCall /\ Len(res.data) # BLOCK_SIZE)
        => (res.out = Err("response too small") /\ res.out.val = {})

\* C2: a 400-byte block validly signed by K verifies under K, and the Block
\* returned carries the signer's signature, public key, previous signature,
\* counter, timestamp and request digest (binary fields in base 32).
C2_ValidBlockVerifies ==
    \A k \in Signers, n \in 1..MaxSigned, diff \in Diffs :
        (/\ TailCall
         /\ res.data = SigBytes(n) \o PayloadOf(k, n, diff)
         /\ [pk |-> SignerKey(k), sm |-> res.data] \in signed
         /\ res.key = SignerKey(k))
        => res.out = Ok([signature |-> b32enc(SigBytes(n)),
                         public_key |-> b32enc(SignerKey(k)),
                         previous_signature |-> b32enc(SigBytes(n + 100)),
                         counter |-> FirstCounter + n,
                         timestamp |-> FirstTimestamp + n,
                         digest |-> b32enc(Sha384(<<k, n>>))])

C2_Witness ==
    /\ TailCall
    /\ res.out.ok
    /\ \E s \in signed : s.sm = res.data /\ s.pk = res.key
    /\ \E b \in res.out.val : b.counter = FirstCounter + 1

\* C3: a block whose public_key differs from the expected key, of whatever
\* length, fails with the public key mismatch error, whether or not its
\* signature is valid.
C3_WrongSignerFirst ==
    (TailCall /\ Len(res.data) >= BLOCK_SIZE /\ PB_public_key(Decoded) # res.key)
        => res.out = Err("public key mismatch")

C3_Witness ==
    /\ TailCall
    /\ \E s \in signed : s.sm = res.data /\ s.pk # res.key
    /\ Len(res.key) = KEY_SIZE
    /\ res.out = Err("public key mismatch")

\* C4: once any part of bytes [64..400) of a signed block is changed, verify
\* fails; a Block is only ever returned for a buffer a signer produced for
\* the expected key.
C4_AlteredPayloadRejected ==
    (TailCall /\ Len(res.data) >= BLOCK_SIZE)
        => /\ (\E s \in signed : /\ PB_signature(s.sm) = PB_signature(Decoded)
                                 /\ s.sm # Decoded)
                => (/\ ~res.out.ok
                    /\ res.out.val = {}
                    /\ res.out.err \in {"public key mismatch", "signature invalid",
                                        "message data invalid"})
           /\ res.out.ok => [pk |-> res.key, sm |-> Decoded] \in signed

C4_Witness ==
    /\ TailCall
    /\ Len(res.data) = BLOCK_SIZE
    /\ \E s \in signed : /\ s.pk = res.key
                         /\ SubSeq(s.sm, 1, OFF_previous_signature)
                                = SubSeq(res.data, 1, OFF_previous_signature)
                         /\ s.sm # res.data
    /\ res.out = Err("signature invalid")

RequestAgrees(b) ==
    /\ PB_request_public_key(b) = PB_public_key(b)
    /\ PB_request_previous_signature(b) = PB_previous_signature(b)
    /\ PB_request_counter(b) = PB_counter(b)
    /\ PB_request_timestamp(b) = PB_timestamp(b)

\* C5 (as claimed): every block verify accepts has its request fields equal
\* to its outer fields.
C5_RequestFieldsChecked ==
    (TailCall /\ res.out.ok) => RequestAgrees(Decoded)

\* C5 (amended): verify accepts a block exactly when its public_key is the
\* expected key and its signature opens over bytes [64..400); the request
\* fields are not compared with the outer fields.
C5_AcceptedIffSignedByExpected ==
    (TailCall /\ Len(res.data) >= BLOCK_SIZE)
        => (res.out.ok <=> (/\ PB_public_key(Decoded) = res.key
                            /\ [pk |-> res.key, sm |-> Decoded] \in signed))

C5_Witness ==
    /\ TailCall
    /\ res.out.ok
    /\ PB_request_counter(Decoded) # PB_counter(Decoded)

\* C6: Downloader.object returns the body only when the base-32 SHA-384 of
\* the body is the requested digest; for any other body it returns the
\* integrity error and no bytes.
C6_ObjectDigestChecked ==
    res.op = "object"
        => /\ res.out.ok
                => (/\ res.out.val = {res.data}
                    /\ \A c \in Contents :
                          res.digest = DigestOf[c] => res.data = c)
           /\ \A c \in Contents :
                (res.digest = DigestOf[c] /\ res.data # c)
                    => (~res.out.ok /\ res.out.val = {})
           /\ (is_success(res.status) /\ res.digest # DigestOf[res.data])
                => res.out = Err("sha384 mismatch")

C6_Witness ==
    /\ res.op = "object"
    /\ is_success(res.status)
    /\ \E c \in Contents : res.digest = DigestOf[c] /\ res.data # c
    /\ res.out = Err("sha384 mismatch")

(***************************************************************************)
(* Claims about the store                                                  *)
(***************************************************************************)

\* the canonical path of everything the callers write
ObjectPaths == {<<c, object_path(Sha384(c))>> : c \in Objects}
BlockPaths == {<<b, block_path(SubSeq(b, 1, SIG_SIZE))>> : b \in StoreBlocks}

\* C7: writing bytes that object/<digest> already holds succeeds, returns
\* the digest of the bytes, and leaves object/ and block/ with the same
\* entries and the object with the same content.
C7_WriteObjectIdempotent ==
    \A p \in procs :
        (Finished(p, "write_object") /\ proc[p].pre.held)
            => /\ proc[p].ret = Ok(Sha384(proc[p].content))
               /\ open_object(fs, Sha384(proc[p].content)) = Ok(proc[p].content)
               /\ Committed(fs) = proc[p].pre.names

C7_Witness ==
    \E p \in procs :
        /\ Finished(p, "write_object")
        /\ proc[p].pre.held
        /\ Len(proc[p].content) > 0
        /\ proc[p].ret.ok

\* C8: when two callers write the same bytes concurrently, starting from a
\* store without tmp/ and object/, both calls return the digest and the
\* object holds the bytes.
C8_ConcurrentWritesSucceed ==
    \A p, q \in procs :
        (/\ p # q
         /\ Finished(p, "write_object")
         /\ Finished(q, "write_object")
         /\ proc[p].content = proc[q].content)
            => /\ proc[p].ret = Ok(Sha384(proc[p].content))
               /\ open_object(fs, Sha384(proc[p].content)) = Ok(proc[p].content)

\* C9: at every step of concurrent writes, and after a crash at any step,
\* whatever is at object/<digest> or block/<signature> is a file holding
\* all the bytes of a write with that digest or signature.
C9_CanonicalNeverPartial ==
    \A q \in Committed(fs) :
        /\ fs[q].kind = "file"
        /\ q[1] = "object" => \E e \in ObjectPaths : e[2] = q /\ fs[q].content = e[1]
        /\ q[1] = "block" => \E e \in BlockPaths : e[2] = q /\ fs[q].content = e[1]

C9_Witness ==
    /\ \E q \in Committed(fs) : q[1] = "block"
    /\ \E t \in DOMAIN fs :
          /\ Len(t) = 2
          /\ t[1] = "tmp"
          /\ 0 < Len(fs[t].content)
          /\ Len(fs[t].content) < BLOCK_SIZE
    /\ \A p \in procs : proc[p].pc = "idle" /\ proc[p].left = 0

\* C10: after write_object(b) has returned a digest, open_object of that
\* digest reads exactly b.
C10_WriteThenOpen ==
    \A p \in procs :
        (Finished(p, "write_object") /\ proc[p].ret.ok)
            => \A key \in proc[p].ret.val : open_object(fs, key) = Ok(proc[p].content)

C10_Witness ==
    \E p \in procs :
        /\ Finished(p, "write_object")
        /\ proc[p].ret.ok
        /\ Len(proc[p].content) = MaxLen
        /\ \E key \in proc[p].ret.val : open_object(fs, key) = Ok(proc[p].content)

(***************************************************************************)
(* Claims about imports, the manifest and the references                   *)
(***************************************************************************)
\* the entries of the artifacts directory when the call began
Entries(p) == DOMAIN proc[p].pre.src
WasReadable(p) == \A q \in Entries(p) : proc[p].pre.src[q].read.ok
WereFiles(p) == \A q \in Entries(p) : proc[p].pre.src[q].kind = "file"
WereLinks(p) == \A q \in Entries(p) : proc[p].pre.src[q].kind = "symlink"
WasContent(p, q) == ValOf(proc[p].pre.src[q].read)

\* object/<base32 of the SHA-384 of c> and block/<base32 of the first 64
\* bytes of b>, for the contents the model writes
ObjectPathOf(c) == (CHOOSE e \in ObjectPaths : e[1] = c)[2]
BlockPathOf(b) == (CHOOSE e \in BlockPaths : e[1] = b)[2]

\* C11: a file at object/<d> or block/<s> is still there, with the same
\* bytes, after every step of every store operation.
C11_WriteOnce ==
    [][\A q \in Committed(fs) :
          fs[q].kind = "file"
              => /\ q \in DOMAIN fs'
                 /\ fs'[q].kind = "file"
                 /\ fs'[q].content = fs[q].content]_vars

\* C12: a manifest built over the artifacts directory has the time it was
\* given and maps each entry name to the SHA-384 of the entry's content,
\* whatever the order of enumeration; after import_artifacts each digest
\* opens to the content and each entry is a symbolic link to
\* ../object/<digest>.
C12_ManifestOfArtifacts ==
    \A p \in procs :
        /\ (Finished(p, "manifest_new") /\ proc[p].ret.ok)
              => ValOf(proc[p].ret) =
                    [time |-> proc[p].time,
                     files |-> [n \in {q[2] : q \in Entries(p)} |->
                                   Sha384(WasContent(p, Append(ArtifactsDir, n)))]]
        /\ (Finished(p, "import_artifacts") /\ proc[p].ret.ok /\ WasReadable(p))
              => /\ ValOf(proc[p].ret) =
                       [time |-> proc[p].time,
                        files |-> [n \in {q[2] : q \in Entries(p)} |->
                                      ObjectPathOf(WasContent(p, Append(ArtifactsDir, n)))[2]]]
                 /\ \A q \in Entries(p) :
                       LET object == ObjectPathOf(WasContent(p, q))
                       IN  /\ read_file(fs, object) = Ok(WasContent(p, q))
                           /\ q \in DOMAIN fs
                           /\ fs[q] = SymlinkNode(<<"..">> \o object)

\* C13: after import_object has succeeded the source path is gone, the digest returned is the SHA-384 of the bytes the source held,
\* object/<digest> holds those bytes, and tmp/ is as it was before the call.
C13_ImportConsumesSource ==
    \A p \in procs :
        (Finished(p, "import_object") /\ proc[p].ret.ok /\ WasReadable(p))
            => \A src \in Entries(p) :
                  /\ src \notin DOMAIN fs
                  /\ proc[p].ret = Ok(Sha384(WasContent(p, src)))
                  /\ read_file(fs, ObjectPathOf(WasContent(p, src))) = Ok(WasContent(p, src))
                  /\ Staged(fs) = proc[p].pre.staged

\* C14: importing what the store already holds succeeds with the same
\* digests and leaves the objects readable: an import_object of a file whose
\* bytes are already an object, and an import_artifacts over entries that
\* are symbolic links into object/.
C14_ImportsIdempotent ==
    \A p \in procs :
        /\ (/\ Finished(p, "import_object")
            /\ WereFiles(p)
            /\ \A src \in Entries(p) :
                  ObjectPathOf(WasContent(p, src)) \in proc[p].pre.names)
              => \A src \in Entries(p) :
                    /\ proc[p].ret = Ok(Sha384(WasContent(p, src)))
                    /\ read_file(fs, ObjectPathOf(WasContent(p, src))) = Ok(WasContent(p, src))
        /\ (/\ Finished(p, "import_artifacts")
            /\ Entries(p) # {}
            /\ WereLinks(p)
            /\ WasReadable(p))
              => /\ proc[p].ret.ok
                 /\ ValOf(proc[p].ret).files =
                       [n \in {q[2] : q \in Entries(p)} |->
                           ObjectPathOf(WasContent(p, Append(ArtifactsDir, n)))[2]]
                 /\ \A q \in Entries(p) :
                       read_file(fs, ObjectPathOf(WasContent(p, q))) = Ok(WasContent(p, q))

\* C15: every write_tail succeeds, and the reference tail/<project>/<branch>
\* then points at the block that call wrote.
C15_TailFollowsLastWrite ==
    \A p \in procs :
        Finished(p, "write_tail")
            => /\ proc[p].ret.ok
               /\ proc[p].link \in DOMAIN fs
               /\ fs[proc[p].link] =
                     SymlinkNode(<<"..", "..">> \o BlockPathOf(proc[p].content))

\* C16: whenever tail/<project>/<branch> exists it is a symbolic link to
\* ../../block/<base32 of the first 64 bytes of a block>, and that block file
\* exists and holds all 400 bytes of the block.
C16_TailNeverDangles ==
    \A project \in Projects, branch \in Branches :
        LET link == <<"tail", project, branch>>
        IN  link \in DOMAIN fs
                => /\ fs[link].kind = "symlink"
                   /\ \E b \in StoreBlocks :
                         /\ fs[link].content = <<"..", "..">> \o BlockPathOf(b)
                         /\ \E c \in StoreBlocks :
                               /\ BlockPathOf(c) = BlockPathOf(b)
                               /\ Len(c) = BLOCK_SIZE
                               /\ read_file(fs, link) = Ok(c)
                               /\ read_file(fs, BlockPathOf(b)) = Ok(c)

C16_Witness ==
    /\ <<"tail", "stuff", "junk">> \in DOMAIN fs
    /\ \E p \in procs :
          /\ proc[p].op = "write_tail"
          /\ proc[p].pc = "wt_symlink"
          /\ proc[p].link = <<"tail", "stuff", "master">>

\* C17: every write_manifest succeeds, and manifest.json then refers to the
\* object of the manifest that call wrote.
C17_ManifestFollowsLastWrite ==
    \A p \in procs :
        Finished(p, "write_manifest")
            => /\ proc[p].ret.ok
               /\ <<"manifest.json">> \in DOMAIN fs
               /\ fs[<<"manifest.json">>] = SymlinkNode(ObjectPathOf(proc[p].content))

\* C18: write_block(b) returns the first 64 bytes of b, and open_block of
\* what it returned reads exactly b.
C18_WriteBlockThenOpen ==
    \A p \in procs :
        (Finished(p, "write_block") /\ proc[p].ret.ok)
            => /\ proc[p].ret = Ok(SubSeq(proc[p].content, 1, SIG_SIZE))
               /\ open_block(fs, ValOf(proc[p].ret)) = Ok(proc[p].content)

C18_Witness ==
    \E p \in procs :
        /\ Finished(p, "write_block")
        /\ proc[p].ret.ok
        /\ Len(proc[p].content) = BLOCK_SIZE
        /\ open_block(fs, SubSeq(proc[p].content, 1, SIG_SIZE)) = Ok(proc[p].content)

\* C19: what is at object/<digest> or block/<signature> has mode 0400 at
\* every step, whichever operation put it there.
C19_CommittedReadOnly ==
    \A q \in Committed(fs) : fs[q].mode = MODE_RO

\* C20: a remove_tmp_dir called while tmp/ holds a staging file fails, and
\* tmp/ and every staging file are still there.
C20_RemoveTmpDirNotEmpty ==
    \A p \in procs :
        (Finished(p, "remove_tmp_dir") /\ \E q \in proc[p].pre.staged : Len(q) = 2)
            => /\ ~proc[p].ret.ok
               /\ Staged(fs) = proc[p].pre.staged

C20_Witness ==
    \E p \in procs :
        /\ Finished(p, "remove_tmp_dir")
        /\ \E q \in proc[p].pre.staged : Len(q) = 2
        /\ proc[p].ret = Err("DirectoryNotEmpty")

\* C21: a write that succeeds when tmp/ held no staging file leaves tmp/ in
\* place and empty, and a remove_tmp_dir called then succeeds and leaves no
\* tmp/.
C21_TmpEmptyAfterWrites ==
    \A p \in procs :
        /\ (/\ proc[p].pc = "done"
            /\ proc[p].op \in {"write_object", "write_manifest", "write_block",
                               "write_tail"}
            /\ proc[p].ret.ok
            /\ proc[p].pre.staged \subseteq {<<"tmp">>})
              => Staged(fs) = {<<"tmp">>}
        /\ (Finished(p, "remove_tmp_dir") /\ proc[p].pre.staged = {<<"tmp">>})
              => (proc[p].ret.ok /\ Staged(fs) = {})

C21_Witness ==
    \E p \in procs :
        /\ Finished(p, "remove_tmp_dir")
        /\ proc[p].pre.staged = {<<"tmp">>}
        /\ proc[p].ret.ok
        /\ <<"tmp">> \notin DOMAIN fs
        /\ \E q \in Committed(fs) : fs[q].kind = "file"

\* C26: at every step, whatever is at object/<d> is a regular file whose
\* SHA-384 is d, and whatever is at block/<s> is a regular file of 400 bytes
\* whose first 64 bytes are s.
C26_ContentAddressIntegrity ==
    \A q \in Committed(fs) :
        /\ fs[q].kind = "file"
        /\ q[1] = "object" => \E e \in ObjectPaths : e[1] = fs[q].content /\ e[2] = q
        /\ q[1] = "block" =>
              /\ Len(fs[q].content) = BLOCK_SIZE
              /\ \E e \in BlockPaths :
                    /\ SubSeq(e[1], 1, SIG_SIZE) = SubSeq(fs[q].content, 1, SIG_SIZE)
                    /\ e[2] = q

\* C27: at every step of import_artifacts and after it has returned, the
\* content each entry of the artifacts directory had when the call began is
\* readable at the entry's path or at object/<SHA-384 of the content>.
C27_NoArtifactLost ==
    \A p \in procs :
        proc[p].op = "import_artifacts"
            => \A q \in Entries(p) :
                  proc[p].pre.src[q].read.ok
                      => \/ read_file(fs, q) = proc[p].pre.src[q].read
                         \/ read_file(fs, ObjectPathOf(WasContent(p, q)))
                                = proc[p].pre.src[q].read

\* C28: when write_tail fails after its block was renamed into place, the
\* block is at block/<signature> with its 400 bytes, and a reference that
\* was at tail/<project>/<branch> before the call is there unchanged.
C28_TailFailureKeepsBlock ==
    \A p \in procs :
        (Finished(p, "write_tail") /\ ~proc[p].ret.ok /\ proc[p].committed)
            => /\ proc[p].dst \in DOMAIN fs
               /\ fs[proc[p].dst].kind = "file"
               /\ fs[proc[p].dst].content = proc[p].content
               /\ \A link \in DOMAIN proc[p].pre.src :
                     /\ link \in DOMAIN fs
                     /\ fs[link].kind = proc[p].pre.src[link].kind
                     /\ fs[link].content = proc[p].pre.src[link].content

C28_Witness ==
    \E p \in procs :
        /\ Finished(p, "write_tail")
        /\ proc[p].ret = Err("AlreadyExists")
        /\ proc[p].committed
        /\ proc[p].link \in DOMAIN proc[p].pre.src
        /\ proc[p].pre.src[proc[p].link].content # tail_to_block(proc[p].val)
        /\ fs[proc[p].dst].content = proc[p].content

\* C24: reading a digest from its text fails with the decode error unless the
\* text is base 32 and decodes to 48 bytes, and no Sha384 of another length
\* is made or written as text again.
C24_DigestLengthChecked ==
    /\ res.op = "from_base32"
          => \/ res.out = Err("b32dec failed")
             \/ res.out.ok /\ Len(ValOf(res.out)) = DIGEST_SIZE
    /\ res.op \in {"serialize", "to_base32"} => Len(res.data) = DIGEST_SIZE

\* C25: sign_manifest returns a block only when the signer wrote exactly 400
\* bytes, and the block is those bytes; when it fails it returns no buffer;
\* build writes a block only when the signer wrote exactly 400 bytes, the
\* bytes it writes.
C25_SignerBlockOnlyFrom400Bytes ==
    \A p \in procs :
        /\ Finished(p, "sign_manifest")
              => /\ proc[p].ret.ok
                       => /\ Len(proc[p].piped) = BLOCK_SIZE
                          /\ proc[p].ret = Ok(proc[p].piped)
                 /\ ~proc[p].ret.ok => proc[p].ret.val = {}
        /\ proc[p].op = "write_block"
              => /\ Len(proc[p].piped) = BLOCK_SIZE
                 /\ proc[p].content = proc[p].piped

(***************************************************************************)
(* Claims about the download command                                       *)
(***************************************************************************)
\* the paths the command has requested, in order
Requested == [i \in 1..Len(cmd.got) |-> cmd.got[i].path]

\* the calls of Downloader::tail and Downloader::object the command has made
CallsMade ==
    CASE cmd.pc \in {"idle", "tail"} -> 0
      [] cmd.pc = "manifest" -> 1
      [] cmd.pc = "artifact" -> 2
      [] cmd.pc = "write" -> 3
      [] cmd.pc = "done" -> IF cmd.file_opt = {} THEN 2 ELSE 3
      [] cmd.pc = "panicked" -> 2
      [] cmd.pc = "failed" ->
            CASE cmd.at = "tail" -> 1
              [] cmd.at \in {"manifest", "parse", "lookup"} -> 2
              [] cmd.at \in {"artifact", "write"} -> 3

\* C22: the command has written the artifact only after three requests in
\* this order: the tail, whose first 400 bytes a signer produced for the
\* configured key; the object of the digest of that block, whose SHA-384 is
\* that digest and which is the manifest; the object of the digest the
\* manifest gives for the file, whose SHA-384 is that digest and whose bytes
\* are the ones written.  A command that failed has an error, has written
\* nothing and has made no request after the step that failed; a command
\* that panicked while it printed the names was asked for no file, and has
\* made no request after the manifest.
C22_OutputOnlyAfterVerification ==
    /\ (cmd.pc = "done" /\ cmd.file_opt # {})
          => \E file \in cmd.file_opt, tail \in cmd.block, manifest \in cmd.manifest :
                /\ Len(cmd.got) = 3
                /\ \A i \in 1..3 : is_success(cmd.got[i].status)
                /\ Requested = <<tail_path("stuff", "master"),
                                 object_url_path(tail.digest),
                                 object_url_path(manifest.files[file])>>
                /\ [pk |-> cmd.key, sm |-> SubSeq(cmd.got[1].body, 1, BLOCK_SIZE)]
                      \in signed
                /\ tail.digest = b32enc(PB_request_digest(cmd.got[1].body))
                /\ Sha384(cmd.got[2].body) = PB_request_digest(cmd.got[1].body)
                /\ serde_json_from_slice(cmd.got[2].body) = Ok(manifest)
                /\ Sha384_to_base32(Sha384(cmd.got[3].body)) = manifest.files[file]
                /\ cmd.out = SubSeq(cmd.got[3].body, 1, Len(cmd.out))
    /\ (cmd.pc # "done" \/ cmd.file_opt = {}) => cmd.out = <<>>
    /\ cmd.pc = "failed"
          => /\ ~cmd.ret.ok
             /\ cmd.printed = {}
             /\ Len(cmd.got) = CallsMade
    /\ cmd.pc = "panicked"
          => /\ ~cmd.ret.ok
             /\ cmd.file_opt = {}
             /\ Len(cmd.got) = CallsMade

C22_Witness ==
    /\ cmd.pc = "done"
    /\ cmd.file_opt = {"a"}
    /\ cmd.out = <<104>>
    /\ Len(cmd.got) = 3
    /\ Cardinality(signed) = MaxSigned

\* C23: the command has sent one GET for each call of Downloader::tail or
\* Downloader::object it has made; a response whose status is not a success
\* is the last one: the call returned the download error with no bytes, and
\* no request followed.
C23_OneGetNoRetry ==
    /\ Len(cmd.got) = CallsMade
    /\ \A i \in 1..Len(cmd.got) :
          ~is_success(cmd.got[i].status)
              => /\ i = Len(cmd.got)
                 /\ cmd.pc = "failed"
                 /\ cmd.ret = Err("failed to download")
                 /\ cmd.ret.val = {}
                 /\ cmd.data = <<>>
                 /\ cmd.out = <<>>

C23_Witness ==
    /\ cmd.pc = "failed"
    /\ cmd.at = "artifact"
    /\ Len(cmd.got) = 3
    /\ ~is_success(cmd.got[3].status)
    /\ cmd.ret = Err("failed to download")
====
